---- MODULE Spec2Model ----
\* YouTube audio extractor service: the two deployed variants of the server
\* (src/index.js with asynchronous extractor initialisation, src/unnamed/part_000
\* with the extractor constructed at load), their three extraction handlers,
\* and the "best audio" selection each handler runs on the fetched format list.
EXTENDS Integers, Sequences, FiniteSets, TLC

VARIABLES variant, ytDlpWrap, initPc, req

vars == <<variant, ytDlpWrap, initPc, req>>

\* ---------------------------------------------------------------- bounds
MaxFormats == 2
NumReq == 2

\* ---------------------------------------------------------------- values
\* JavaScript undefined: for string-valued fields and for numeric fields.
Undef == "undefined"
UndefNum == -1

Variants == {"index", "part000"}
Endpoints == {"/extract", "/extract-simple", "/stream"}
\* "" stands for a missing or empty videoId query parameter (both are falsy).
VideoIds == {"", "abc"}
Messages == {"network", "unavailable"}
TypeErrorMsg == "TypeError"

Bitrates == {UndefNum, 0, 64, 128}
VCodecs == {"none", "avc1"}
ACodecs == {"none", "mp4a"}

\* The format descriptors yt-dlp can put at position i of info.formats.
FormatsAt(i) ==
    [url : {i}, ext : {i}, vcodec : VCodecs, acodec : ACodecs, abr : Bitrates]

RECURSIVE FormatLists(_)
FormatLists(n) ==
    IF n = 0 THEN {<<>>}
    ELSE FormatLists(n - 1) \cup
         {Append(s, f) : s \in {t \in FormatLists(n - 1) : Len(t) = n - 1},
                         f \in FormatsAt(n)}

\* The metadata object getVideoInfo resolves with.
Infos ==
    [title : {Undef, "T"}, uploader : {Undef, "U"}, channel : {Undef, "C"},
     thumbnail : {Undef, "th"}, duration : {212},
     formats : FormatLists(MaxFormats)]

\* The format descriptors ytdl-core can put at position i of info.formats.
YtdlFormatsAt(i) ==
    [url : {i}, container : {i}, hasVideo : BOOLEAN, hasAudio : BOOLEAN,
     audioBitrate : Bitrates]

RECURSIVE YtdlFormatLists(_)
YtdlFormatLists(n) ==
    IF n = 0 THEN {<<>>}
    ELSE YtdlFormatLists(n - 1) \cup
         {Append(s, f) : s \in {t \in YtdlFormatLists(n - 1) : Len(t) = n - 1},
                         f \in YtdlFormatsAt(n)}

\* The object ytdl.getInfo resolves with (videoDetails flattened).
YtdlInfos ==
    [title : {Undef, "T"}, author : {"A"}, thumbnails : {<<>>, <<"t1", "t2">>},
     lengthSeconds : {<<2, 1, 2>>}, formats : YtdlFormatLists(MaxFormats)]

\* A small sample of fetch results used when several requests are in flight.
F(i, v, a, b) == [url |-> i, ext |-> i, vcodec |-> v, acodec |-> a, abr |-> b]
M(t, u, fs) ==
    [title |-> t, uploader |-> u, channel |-> "C", thumbnail |-> "th",
     duration |-> 212, formats |-> fs]
SampleInfos ==
    { M("T", "U", <<F(1, "none", "mp4a", 0), F(2, "none", "mp4a", 128)>>),
      M("T2", Undef, <<F(1, "avc1", "mp4a", 128)>>),
      M(Undef, "U", <<>>) }
YF(i, v, a, b) ==
    [url |-> i, container |-> i, hasVideo |-> v, hasAudio |-> a,
     audioBitrate |-> b]
SampleYtdlInfos ==
    { [title |-> "T", author |-> "A", thumbnails |-> <<"t1", "t2">>,
       lengthSeconds |-> <<2, 1, 2>>,
       formats |-> <<YF(1, FALSE, TRUE, 0), YF(2, FALSE, TRUE, 128)>>],
      [title |-> "T2", author |-> "A", thumbnails |-> <<>>,
       lengthSeconds |-> <<2, 1, 2>>,
       formats |-> <<YF(1, FALSE, TRUE, UndefNum)>>] }

\* ---------------------------------------------------------------- selector
\* f.vcodec === 'none' && f.acodec !== 'none'
IsAudioOnly(f) == f.vcodec = "none" /\ f.acodec # "none"
\* f.acodec !== 'none'
HasAudio(f) == f.acodec # "none"
\* ytdl.filterFormats(..., 'audioonly') predicate
IsYtdlAudioOnly(f) == ~f.hasVideo /\ f.hasAudio

\* (x || 0) on a bitrate: undefined and 0 both give 0
OrZero(b) == IF b = UndefNum THEN 0 ELSE b

\* Position at which a key is inserted into a descending key sequence so that
\* it lands after every key that is greater or equal (stable).
RECURSIVE InsertPosUnstable(_, _, _)
InsertPosUnstable(keys, k, i) ==
    IF i > Len(keys) THEN i
    ELSE IF keys[i] <= k THEN i
    ELSE InsertPosUnstable(keys, k, i + 1)

RECURSIVE InsertPos(_, _, _)
InsertPos(keys, k, i) ==
    IF i > Len(keys) THEN i
    ELSE IF keys[i] < k THEN i
    ELSE InsertPos(keys, k, i + 1)

InsertAt(s, i, x) == SubSeq(s, 1, i - 1) \o <<x>> \o SubSeq(s, i, Len(s))

\* Array.prototype.sort((a, b) => key(b) - key(a)): stable, descending by key.
\* Returns the permutation of indices of the sorted array.
RECURSIVE SortedIdx(_, _)
SortedIdx(keys, n) ==
    IF n = 0 THEN <<>>
    ELSE LET prev == SortedIdx(keys, n - 1)
             pkeys == [j \in 1..Len(prev) |-> keys[prev[j]]]
         IN InsertAt(prev, InsertPos(pkeys, keys[n], 1), n)

SortDesc(s, keys) ==
    LET idx == SortedIdx(keys, Len(s)) IN [j \in 1..Len(s) |-> s[idx[j]]]

\* audioFormats.sort((a, b) => (b.abr || 0) - (a.abr || 0))
SortByAbr(s) == SortDesc(s, [j \in 1..Len(s) |-> OrZero(s[j].abr)])
\* audioFormats.sort((a, b) => (b.audioBitrate || 0) - (a.audioBitrate || 0))
SortByAudioBitrate(s) ==
    SortDesc(s, [j \in 1..Len(s) |-> OrZero(s[j].audioBitrate)])

NoFormat == [url |-> UndefNum]
\* arr[0]: the first element, undefined on an empty array
First(s) == IF Len(s) = 0 THEN NoFormat ELSE s[1]

\* Array.prototype.filter is SelectSeq: a new array of the elements passing
\* the test, in their original order.
\* bestAudio of /extract and /stream
BestAudio(formats) == First(SortByAbr(SelectSeq(formats, IsAudioOnly)))
\* fallbackAudio of /extract in part_000
FallbackAudio(formats) == First(SortByAbr(SelectSeq(formats, HasAudio)))


\* ---------------------------------------------------------------- responses
NoResp ==
    [status |-> 0, type |-> "none", error |-> Undef, message |-> Undef,
     text |-> Undef, location |-> UndefNum, audioUrl |-> UndefNum,
     title |-> Undef, artist |-> Undef, thumbnail |-> Undef,
     duration |-> UndefNum, format |-> UndefNum, quality |-> UndefNum]

\* res.status(code).json({ error }) ; a key whose value is undefined is
\* dropped by JSON serialisation, which the Undef value of a field stands for.
JsonError(code, err, msg) ==
    [NoResp EXCEPT !.status = code, !.type = "json", !.error = err,
                   !.message = msg]
\* res.status(code).send(text)
Text(code, txt) == [NoResp EXCEPT !.status = code, !.type = "text", !.text = txt]
\* res.redirect(url): 302 Found with a Location header
Redirect(url) ==
    [NoResp EXCEPT !.status = 302, !.type = "redirect", !.location = url]

\* a || b on strings
Or(a, b) == IF a = Undef THEN b ELSE a

\* res.json({ audioUrl, title, artist, thumbnail, duration, format })
ExtractBody(info, chosen) ==
    [NoResp EXCEPT !.status = 200, !.type = "json",
                   !.audioUrl = chosen.url,
                   !.title = info.title,
                   !.artist = Or(info.uploader, info.channel),
                   !.thumbnail = info.thumbnail,
                   !.duration = info.duration,
                   !.format = chosen.ext]

\* the part of /extract after the await, src/index.js
ExtractIndexResponse(info) ==
    LET bestAudio == BestAudio(info.formats) IN
    IF bestAudio = NoFormat THEN JsonError(404, "No audio found", Undef)
    ELSE ExtractBody(info, bestAudio)

\* the part of /extract after the await, part_000 (with the fallback)
ExtractPart000Response(info) ==
    LET bestAudio == BestAudio(info.formats)
        fallbackAudio == FallbackAudio(info.formats) IN
    IF bestAudio = NoFormat
    THEN IF fallbackAudio = NoFormat
         THEN JsonError(404, "No se encontro audio", Undef)
         ELSE ExtractBody(info, fallbackAudio)
    ELSE ExtractBody(info, bestAudio)

\* parseInt on a string of decimal digits; NaN (serialised as null) if empty
RECURSIVE ParseInt(_)
ParseInt(ds) ==
    IF Len(ds) = 0 THEN UndefNum
    ELSE IF Len(ds) = 1 THEN ds[1]
    ELSE 10 * ParseInt(SubSeq(ds, 1, Len(ds) - 1)) + ds[Len(ds)]

\* the part of /extract-simple after the await (same in both files)
ExtractSimpleResponse(info) ==
    LET audioFormats == SelectSeq(info.formats, IsYtdlAudioOnly)
        bestAudio == First(SortByAudioBitrate(audioFormats)) IN
    IF Len(audioFormats) = 0
    THEN JsonError(404, "No audio stream found", Undef)
    ELSE IF Len(info.thumbnails) = 0
    THEN \* thumbnails[-1].url throws inside the try block
         JsonError(500, "Failed to extract audio", TypeErrorMsg)
    ELSE [NoResp EXCEPT !.status = 200, !.type = "json",
                        !.audioUrl = bestAudio.url,
                        !.title = info.title,
                        !.artist = info.author,
                        !.thumbnail = info.thumbnails[Len(info.thumbnails)],
                        !.duration = ParseInt(info.lengthSeconds),
                        !.format = bestAudio.container,
                        !.quality = bestAudio.audioBitrate]

StreamResponseUnchecked(info) ==
    LET bestAudio == BestAudio(info.formats) IN
    IF bestAudio = NoFormat THEN Text(500, "Stream failed")
    ELSE Redirect(bestAudio.url)

StreamResponseUnsorted(info) ==
    LET bestAudio == First(SelectSeq(info.formats, IsAudioOnly)) IN
    IF bestAudio = NoFormat THEN Text(404, "No audio found")
    ELSE Redirect(bestAudio.url)

\* the part of /stream after the await (same in both files)
StreamResponse(info) ==
    LET bestAudio == BestAudio(info.formats) IN
    IF bestAudio = NoFormat THEN Text(404, "No audio found")
    ELSE Redirect(bestAudio.url)

InfoSortedInPlace(info) ==
    IF "vcodec" \in UNION {DOMAIN info.formats[i] : i \in 1..Len(info.formats)}
    THEN [info EXCEPT !.formats = SortByAbr(@)]
    ELSE [info EXCEPT !.formats = SortByAudioBitrate(@)]

\* info.formats after the handler has selected: filter returns a new array
\* and sort reorders that array only, so the fetched object is as received.
InfoAfterSelect(info) == info

\* ---------------------------------------------------------------- state
NoInfo == [formats |-> <<>>]
NoOutcome == [kind |-> "none", info |-> NoInfo, message |-> Undef]
Resolved(info) == [kind |-> "ok", info |-> info, message |-> Undef]
Rejected(msg) == [kind |-> "rejected", info |-> NoInfo, message |-> msg]

Idle ==
    [pc |-> "idle", endpoint |-> Undef, videoId |-> Undef, handle |-> Undef,
     overlapped |-> FALSE, fetches |-> 0, outcome |-> NoOutcome, info |-> NoInfo, resp |-> NoResp]

Reqs == DOMAIN req

\* what getVideoInfo / getInfo can resolve with
FetchResults == IF Cardinality(Reqs) = 1 THEN Infos ELSE SampleInfos
YtdlFetchResults == IF Cardinality(Reqs) = 1 THEN YtdlInfos ELSE SampleYtdlInfos

\* module load: part_000 constructs the handle at once; index.js calls
\* initYTDlp(), which constructs it at once when the binary exists and
\* otherwise suspends on the download.
InitModule ==
    /\ variant \in Variants
    /\ \/ variant = "part000" /\ ytDlpWrap = "instance" /\ initPc = "none"
       \/ variant = "index" /\ ytDlpWrap = "instance" /\ initPc = "done"
       \/ variant = "index" /\ ytDlpWrap = Undef /\ initPc = "downloading"

Init == InitModule /\ req = [r \in 1..1 |-> Idle]
InitConc == InitModule /\ req = [r \in 1..NumReq |-> Idle]

\* downloadFromGithub resolves; chmodSync then succeeds or throws
DownloadResolved ==
    /\ initPc = "downloading"
    /\ \E chmodOk \in BOOLEAN :
         IF chmodOk
         THEN ytDlpWrap' = "instance" /\ initPc' = "done"
         ELSE ytDlpWrap' = ytDlpWrap /\ initPc' = "failed"
    /\ UNCHANGED <<variant, req>>

\* downloadFromGithub rejects; initYTDlp().catch(console.error)
DownloadRejected ==
    /\ initPc = "downloading"
    /\ initPc' = "failed"
    /\ UNCHANGED <<variant, ytDlpWrap, req>>

\* a request enters its handler: the query parameter and the module-level
\* handle as the handler reads them; overlapped records whether another
\* request is suspended on its fetch at that moment
Arrived(r, ep, vid) ==
    [req[r] EXCEPT !.endpoint = ep, !.videoId = vid, !.handle = ytDlpWrap,
                   !.overlapped = \E o \in Reqs : req[o].pc = "awaiting"]
Respond(q, response) == [q EXCEPT !.pc = "done", !.resp = response]
Await(q) == [q EXCEPT !.pc = "awaiting", !.fetches = @ + 1]
Settle(q, outcome, response) ==
    [q EXCEPT !.pc = "done", !.outcome = outcome,
              !.info = IF outcome.kind = "ok" THEN InfoAfterSelect(outcome.info)
                       ELSE NoInfo,
              !.resp = response]

ExtractReadyFirst(r, vid) ==
    /\ req[r].pc = "idle"
    /\ LET q == Arrived(r, "/extract", vid) IN
       req' = [req EXCEPT ![r] =
           IF variant = "index" /\ ytDlpWrap = Undef
           THEN Respond(q, JsonError(503, "Extractor not ready yet", Undef))
           ELSE IF vid = ""
           THEN Respond(q, JsonError(400, "Missing videoId", Undef))
           ELSE Await(q)]
    /\ UNCHANGED <<variant, ytDlpWrap, initPc>>

\* GET /extract up to the await
Extract(r, vid) ==
    /\ req[r].pc = "idle"
    /\ LET q == Arrived(r, "/extract", vid) IN
       req' = [req EXCEPT ![r] =
           IF vid = ""
           THEN Respond(q, JsonError(400, IF variant = "index"
                                          THEN "Missing videoId"
                                          ELSE "Falta el videoId", Undef))
           ELSE IF variant = "index" /\ ytDlpWrap = Undef
           THEN Respond(q, JsonError(503, "Extractor not ready yet", Undef))
           ELSE Await(q)]
    /\ UNCHANGED <<variant, ytDlpWrap, initPc>>

ExtractResolved(r) ==
    /\ req[r].pc = "awaiting" /\ req[r].endpoint = "/extract"
    /\ \E info \in FetchResults :
       req' = [req EXCEPT ![r] = Settle(@, Resolved(info),
                  IF variant = "index" THEN ExtractIndexResponse(info)
                  ELSE ExtractPart000Response(info))]
    /\ UNCHANGED <<variant, ytDlpWrap, initPc>>

ExtractRejected(r) ==
    /\ req[r].pc = "awaiting" /\ req[r].endpoint = "/extract"
    /\ \E msg \in Messages :
       req' = [req EXCEPT ![r] = Settle(@, Rejected(msg),
                  JsonError(500, IF variant = "index" THEN "Failed to extract"
                                 ELSE "Error al extraer", msg))]
    /\ UNCHANGED <<variant, ytDlpWrap, initPc>>

\* GET /extract-simple up to the await
ExtractSimple(r, vid) ==
    /\ req[r].pc = "idle"
    /\ LET q == Arrived(r, "/extract-simple", vid) IN
       req' = [req EXCEPT ![r] =
           IF vid = ""
           THEN Respond(q, JsonError(400, "Missing videoId parameter", Undef))
           ELSE Await(q)]
    /\ UNCHANGED <<variant, ytDlpWrap, initPc>>

ExtractSimpleResolved(r) ==
    /\ req[r].pc = "awaiting" /\ req[r].endpoint = "/extract-simple"
    /\ \E info \in YtdlFetchResults :
       req' = [req EXCEPT ![r] =
                  Settle(@, Resolved(info), ExtractSimpleResponse(info))]
    /\ UNCHANGED <<variant, ytDlpWrap, initPc>>

ExtractSimpleRejectedGeneric(r) ==
    /\ req[r].pc = "awaiting" /\ req[r].endpoint = "/extract-simple"
    /\ \E msg \in Messages :
       req' = [req EXCEPT ![r] = Settle(@, Rejected(msg),
                  JsonError(500, "Failed to extract audio", "Internal error"))]
    /\ UNCHANGED <<variant, ytDlpWrap, initPc>>

ExtractSimpleRejected(r) ==
    /\ req[r].pc = "awaiting" /\ req[r].endpoint = "/extract-simple"
    /\ \E msg \in Messages :
       req' = [req EXCEPT ![r] = Settle(@, Rejected(msg),
                  JsonError(500, "Failed to extract audio", msg))]
    /\ UNCHANGED <<variant, ytDlpWrap, initPc>>

\* GET /stream up to the await; an undefined handle makes
\* ytDlpWrap.getVideoInfo throw a TypeError inside the try block
Stream(r, vid) ==
    /\ req[r].pc = "idle"
    /\ LET q == Arrived(r, "/stream", vid) IN
       req' = [req EXCEPT ![r] =
           IF vid = ""
           THEN Respond(q, JsonError(400, "Missing videoId parameter", Undef))
           ELSE IF ytDlpWrap = Undef
           THEN Respond(q, Text(500, "Stream failed"))
           ELSE Await(q)]
    /\ UNCHANGED <<variant, ytDlpWrap, initPc>>

StreamResolved(r) ==
    /\ req[r].pc = "awaiting" /\ req[r].endpoint = "/stream"
    /\ \E info \in FetchResults :
       req' = [req EXCEPT ![r] =
                  Settle(@, Resolved(info), StreamResponse(info))]
    /\ UNCHANGED <<variant, ytDlpWrap, initPc>>

StreamRejected(r) ==
    /\ req[r].pc = "awaiting" /\ req[r].endpoint = "/stream"
    /\ \E msg \in Messages :
       req' = [req EXCEPT ![r] =
                  Settle(@, Rejected(msg), Text(500, "Stream failed"))]
    /\ UNCHANGED <<variant, ytDlpWrap, initPc>>

Next ==
    \/ DownloadResolved
    \/ DownloadRejected
    \/ \E r \in Reqs, vid \in VideoIds : Extract(r, vid)
    \/ \E r \in Reqs : ExtractResolved(r)
    \/ \E r \in Reqs : ExtractRejected(r)
    \/ \E r \in Reqs, vid \in VideoIds : ExtractSimple(r, vid)
    \/ \E r \in Reqs : ExtractSimpleResolved(r)
    \/ \E r \in Reqs : ExtractSimpleRejected(r)
    \/ \E r \in Reqs, vid \in VideoIds : Stream(r, vid)
    \/ \E r \in Reqs : StreamResolved(r)
    \/ \E r \in Reqs : StreamRejected(r)

Spec == Init /\ [][Next]_vars
SpecConc == InitConc /\ [][Next]_vars

TypeOK ==
    /\ variant \in Variants
    /\ ytDlpWrap \in {Undef, "instance"}
    /\ \A r \in Reqs : req[r].pc \in {"idle", "awaiting", "done"}

\* ---------------------------------------------------------------- properties
Done(r) == req[r].pc = "done"
Fetched(r) == Done(r) /\ req[r].outcome.kind = "ok"
FormatsOf(r) == req[r].outcome.info.formats
UsesYtDlp(r) == req[r].endpoint \in {"/extract", "/stream"}

AbrOf(fs, i) == IF fs[i].abr = UndefNum THEN 0 ELSE fs[i].abr
AudioOnlyPos(fs) ==
    {i \in 1..Len(fs) : fs[i].vcodec = "none" /\ fs[i].acodec # "none"}
WithAudioPos(fs) == {i \in 1..Len(fs) : fs[i].acodec # "none"}
\* the first position of P whose bitrate is the maximum over P
FirstMax(fs, P) ==
    CHOOSE i \in P : \A j \in P :
        AbrOf(fs, j) < AbrOf(fs, i) \/ (AbrOf(fs, j) = AbrOf(fs, i) /\ i <= j)
\* the url the handler answered with
SelectedUrl(r) ==
    IF req[r].endpoint = "/stream" THEN req[r].resp.location
    ELSE req[r].resp.audioUrl

\* C1: when the fetched list has an audio-only variant, /extract and /stream
\* select the audio-only variant of maximum abr (absent abr as 0), the first
\* one in fetcher order among those sharing the maximum.
C1_BestAudioOnly ==
    \A r \in Reqs :
        (Fetched(r) /\ UsesYtDlp(r) /\ AudioOnlyPos(FormatsOf(r)) # {}) =>
            /\ req[r].resp.status \in {200, 302}
            /\ SelectedUrl(r) =
                 FormatsOf(r)[FirstMax(FormatsOf(r), AudioOnlyPos(FormatsOf(r)))].url

\* a tie at the maximum between two audio-only variants, resolved to the first
C1_Witness ==
    \E r \in Reqs :
        /\ Fetched(r) /\ UsesYtDlp(r)
        /\ \E i, j \in AudioOnlyPos(FormatsOf(r)) :
              /\ i < j
              /\ AbrOf(FormatsOf(r), i) = AbrOf(FormatsOf(r), j)
              /\ FormatsOf(r)[i].abr # FormatsOf(r)[j].abr
              /\ FirstMax(FormatsOf(r), AudioOnlyPos(FormatsOf(r))) = i
              /\ SelectedUrl(r) = FormatsOf(r)[i].url

\* C2: with no audio-only variant but some variant with audio, every handler
\* running the selector answers 200 with the url and ext of the max-abr
\* variant among those with audio.
C2_FallbackEverywhere ==
    \A r \in Reqs :
        (/\ Fetched(r) /\ UsesYtDlp(r)
         /\ AudioOnlyPos(FormatsOf(r)) = {}
         /\ WithAudioPos(FormatsOf(r)) # {}) =>
            LET f == FormatsOf(r)[FirstMax(FormatsOf(r), WithAudioPos(FormatsOf(r)))]
            IN /\ req[r].resp.status = 200
               /\ req[r].resp.audioUrl = f.url
               /\ req[r].resp.format = f.ext

\* C3: a successful fetch whose format list is empty or all acodec = 'none'
\* ends in 404, never 500 and never 200.
C3_NoAudioIs404 ==
    \A r \in Reqs :
        (Fetched(r) /\ UsesYtDlp(r) /\ WithAudioPos(FormatsOf(r)) = {}) =>
            req[r].resp.status = 404

\* both shapes of the case: an empty list on one endpoint or a non-empty
\* all-silent list
C3_Witness ==
    \E r \in Reqs :
        /\ Fetched(r) /\ UsesYtDlp(r)
        /\ Len(FormatsOf(r)) >= 2
        /\ WithAudioPos(FormatsOf(r)) = {}
        /\ req[r].resp.status = 404

\* C4: a missing or empty videoId is answered 400 with an error field on
\* every endpoint, without a fetch, whatever the state of the handle.
C4_MissingVideoId400 ==
    \A r \in Reqs :
        (Done(r) /\ req[r].videoId = "") =>
            /\ req[r].resp.status = 400
            /\ req[r].resp.type = "json"
            /\ req[r].resp.error # Undef
            /\ req[r].fetches = 0
            /\ req[r].outcome.kind = "none"

\* /extract of index.js reached with no videoId while the handle is unset
C4_Witness ==
    \E r \in Reqs :
        /\ Done(r) /\ req[r].videoId = "" /\ req[r].endpoint = "/extract"
        /\ variant = "index" /\ req[r].handle = Undef
        /\ req[r].resp.status = 400

\* C5: a rejected fetch gives 500, JSON with error and the failure's message
\* on /extract and /extract-simple, plain text on /stream; the fetch ran once
\* and nothing else was sent.
C5_RejectIs500 ==
    \A r \in Reqs :
        /\ req[r].fetches <= 1
        /\ (Done(r) /\ req[r].outcome.kind = "rejected") =>
            /\ req[r].fetches = 1
            /\ req[r].resp.status = 500
            /\ req[r].resp.audioUrl = UndefNum
            /\ req[r].resp.location = UndefNum
            /\ IF req[r].endpoint = "/stream"
               THEN req[r].resp.type = "text" /\ req[r].resp.text # Undef
               ELSE /\ req[r].resp.type = "json"
                    /\ req[r].resp.error # Undef
                    /\ req[r].resp.message = req[r].outcome.message

C5_Witness ==
    \E r \in Reqs :
        /\ Done(r) /\ req[r].outcome.kind = "rejected"
        /\ req[r].endpoint = "/extract-simple"
        /\ req[r].resp.message = "unavailable"

\* C6: /stream with a fetched list holding an audio-only variant answers a
\* 302 redirect to the url of the max-abr audio-only variant.
C6_StreamRedirects ==
    \A r \in Reqs :
        (/\ Fetched(r) /\ req[r].endpoint = "/stream" /\ req[r].videoId # ""
         /\ AudioOnlyPos(FormatsOf(r)) # {}) =>
            /\ req[r].resp.status = 302
            /\ req[r].resp.type = "redirect"
            /\ req[r].resp.location =
                 FormatsOf(r)[FirstMax(FormatsOf(r), AudioOnlyPos(FormatsOf(r)))].url

\* the chosen variant is not the first audio-only variant of the list
C6_Witness ==
    \E r \in Reqs :
        /\ Fetched(r) /\ req[r].endpoint = "/stream"
        /\ req[r].resp.status = 302
        /\ \E i \in AudioOnlyPos(FormatsOf(r)) : FormatsOf(r)[i].url < req[r].resp.location

\* C7: every 200 of /extract has title, artist and thumbnail present
\* (defaults substituted) and a quality that is the bitrate or "unknown".
C7_ExtractDefaults ==
    \A r \in Reqs :
        (Done(r) /\ req[r].endpoint = "/extract" /\ req[r].resp.status = 200) =>
            /\ req[r].resp.title # Undef
            /\ req[r].resp.artist # Undef
            /\ req[r].resp.thumbnail # Undef
            /\ req[r].resp.quality # UndefNum

C9_SimpleQualityNumeric ==
    \A r \in Reqs :
        (Done(r) /\ req[r].endpoint = "/extract-simple"
                 /\ req[r].resp.status = 200) =>
            req[r].resp.quality # UndefNum

\* C10: in index.js a request with a videoId on /extract or /stream that
\* finds the handle unset is answered 503 without a fetch, and a request
\* that finds it set is never answered 503.
C10_NotReady503 ==
    \A r \in Reqs :
        (/\ variant = "index" /\ Done(r) /\ req[r].videoId # ""
         /\ UsesYtDlp(r)) =>
            IF req[r].handle = Undef
            THEN req[r].resp.status = 503 /\ req[r].fetches = 0
            ELSE req[r].resp.status # 503

====
